---------------------------- MODULE Spec2Model ----------------------------
(***************************************************************************)
(* State-machine model of src/app.py (Pavishna Global Service admin        *)
(* backend): the admin_users and clients tables, the per-browser Flask     *)
(* session, and one action per HTTP handler.                               *)
(*                                                                         *)
(* Text that the code measures or trims (usernames, passwords, stored      *)
(* credentials) is a sequence of one-character strings, so that len() and  *)
(* str.strip() are computed.  Text that the code only stores and compares  *)
(* (client columns) is a TLA+ string.                                      *)
(***************************************************************************)
EXTENDS Integers, Sequences, FiniteSets, TLC

(* ------------------------------ bounds -------------------------------- *)

\* Largest identifier the clients sequence hands out, and largest reading of
\* the wall clock, where the client operations are under study.
MaxId == 2
MaxClock == 1

\* The same two bounds where the statements of get_stats interleave with
\* client writes.
StatsMaxId == 2
StatsMaxClock == 0

\* The same two bounds where the session gate and the credential store are
\* under study and the client operations only have to act.
AuthMaxId == 1
AuthMaxClock == 0

\* The connections of the handlers: ids issued, and readings of the clock.
ConnMaxId == 1
ConnMaxClock == 0

\* The listing of the repository: ids issued, and readings of the clock.
ListMaxId == 3
ListMaxClock == 0

(* ------------------------- password functions ------------------------- *)

\* Length of a hexdigest of SHA-256.
DigestLen == 64

\* hashlib.sha256(password.encode()).hexdigest(): a 64-character value that
\* determines the password.  The password padded to 64 characters is such a
\* value for the passwords of the model, none of which holds the padding
\* character or is longer than 64.
DigestPadding == [i \in 1..DigestLen |-> "."]

hash_password(password) ==
    password \o SubSeq(DigestPadding, 1, DigestLen - Len(password))

P_admin123 == <<"a", "d", "m", "i", "n", "1", "2", "3">>
P_secret   == <<"s", "e", "c", "r", "e", "t">>
P_short    == <<"a", "b", "c", "1", "2">>
P_empty    == << >>

U_admin    == <<"a", "d", "m", "i", "n">>
U_root     == <<"r", "o", "o", "t">>
U_padded   == <<" ", "r", "o", "o", "t", " ">>
U_short    == <<"a", "b">>
U_padshort == <<"a", "b", " ">>
U_empty    == << >>

\* '240be518...c720a9', which is sha256('admin123').
ADMIN123_HASH == hash_password(P_admin123)

\* '240be518...2b8b53': 64 characters, the digest of no password of the model.
OLD_WRONG_HASH == [i \in 1..DigestLen |-> "x"]

verify_password_hash_only(input_password, stored_password) ==
    hash_password(input_password) = stored_password

verify_password(input_password, stored_password) ==
    LET input_hash == hash_password(input_password)
    IN  IF Len(stored_password) = DigestLen
        THEN input_hash = stored_password
        ELSE input_password = stored_password

\* str.strip(): leading and trailing whitespace removed.
RECURSIVE lstrip(_)
lstrip(s) == IF s # << >> /\ Head(s) = " " THEN lstrip(Tail(s)) ELSE s

RECURSIVE rstrip(_)
rstrip(s) == IF s # << >> /\ s[Len(s)] = " "
             THEN rstrip(SubSeq(s, 1, Len(s) - 1)) ELSE s

strip(s) == rstrip(lstrip(s))


(* ------------------------------- state -------------------------------- *)

VARIABLES
    admin_users,  \* rows of table admin_users, in rowid order
    clients,      \* rows of table clients
    next_id,      \* next value of the clients id sequence (AUTOINCREMENT / SERIAL)
    session,      \* the Flask session of each browser: its keys and its username
    clock,        \* the wall clock
    stats,        \* the get_stats call in flight: position, caller, counters so far
    resp          \* the request served last and its response

vars == <<admin_users, clients, next_id, session, clock, stats, resp>>

\* The browsers (cookie jars) that talk to the server.
Sessions == {"s1", "s2"}

\* session.clear(), and the session of a browser that holds no cookie.
EmptySession == [keys |-> {}, username |-> << >>]

Authenticated(s) == "logged_in" \in session[s].keys

\* The request served last and its response.  auth: the session held
\* 'logged_in' when the request arrived.  db: the handler called get_db().
\* id: the client_id of the URL, or the id the response carries.  rows: the
\* client rows (or the stats dictionary) the response carries.  conn: the
\* connection get_db() gave the handler, as the handler left it: "none" when
\* it took none, "closed" after conn.close(), "open" otherwise.  Every return
\* statement of a handler that follows get_db() follows a conn.close().
Response(op, s, status, db, id, rows) ==
    [op |-> op, auth |-> Authenticated(s), status |-> status,
     db |-> db, id |-> id, rows |-> rows,
     conn |-> IF db THEN "closed" ELSE "none"]

(* --------------------------- initialization --------------------------- *)

\* A row of admin_users.  Its created_at and updated_at are written and never
\* read; they are left out.
AdminRow(id, username, password) ==
    [id |-> id, username |-> username, password |-> password]

\* The part of init_db that checks and repairs the admin account: rows is
\* table admin_users as found.
init_db_admin_always_reset(rows) ==
    IF rows = << >>
    THEN <<AdminRow(1, U_admin, ADMIN123_HASH)>>
    ELSE [rows EXCEPT ![1].password = ADMIN123_HASH]

init_db_admin(rows) ==
    IF rows = << >>
    THEN <<AdminRow(1, U_admin, ADMIN123_HASH)>>
    ELSE LET admin == rows[1]
             stored_pass == admin.password
         IN  IF Len(stored_pass) # DigestLen \/ stored_pass = OLD_WRONG_HASH
             THEN [rows EXCEPT ![1].password = ADMIN123_HASH]
             ELSE rows

\* Table admin_users as a deployment may find it before its first init_db:
\* absent/empty, holding a plaintext password of an older version, holding
\* the wrong digest of an older version, or already valid.
PreExistingAdminUsers ==
    { << >>,
      <<AdminRow(1, U_admin, P_admin123)>>,
      <<AdminRow(1, U_admin, OLD_WRONG_HASH)>>,
      <<AdminRow(1, U_admin, ADMIN123_HASH)>>,
      <<AdminRow(1, U_root, hash_password(P_secret))>> }

NoStats == [pc |-> 0, result |-> << >>]

Init ==
    /\ clock = 0
    /\ \E pre \in PreExistingAdminUsers : admin_users = init_db_admin(pre)
    /\ clients = {}
    /\ next_id = 1
    /\ session = [s \in Sessions |-> EmptySession]
    /\ stats = NoStats
    /\ resp = [op |-> "init_db", auth |-> FALSE, status |-> "ok",
               db |-> TRUE, id |-> 0, rows |-> << >>, conn |-> "closed"]

\* init_db run again: the process restarts, or another worker loads the module.
init_db ==
    /\ admin_users' = init_db_admin(admin_users)
    /\ resp' = [op |-> "init_db", auth |-> FALSE, status |-> "ok",
                db |-> TRUE, id |-> 0, rows |-> << >>, conn |-> "closed"]
    /\ UNCHANGED <<clients, next_id, session, clock, stats>>

(* ------------------------- login and logout --------------------------- *)

LoginUsernames == {U_admin, U_root, U_padded, U_empty}
LoginPasswords == {P_admin123, P_secret, P_empty}

\* SELECT * FROM admin_users WHERE username = ?  followed by fetchone().
SelectAdminByUsername(rows, username) ==
    {i \in 1..Len(rows) : rows[i].username = username}

\* The test of login that decides the response, on the fields as posted.
login_ok_password_only(rows, username_field, password) ==
    LET username == strip(username_field)
    IN  /\ username # << >>
        /\ password # << >>
        /\ \E i \in 1..Len(rows) : verify_password(password, rows[i].password)

login_ok(rows, username_field, password) ==
    LET username == strip(username_field)
        found == SelectAdminByUsername(rows, username)
    IN  /\ username # << >>
        /\ password # << >>
        /\ found # {}
        /\ verify_password(password,
                           rows[CHOOSE i \in found : \A j \in found : i <= j].password)

\* POST /login
login(s, username_field, password) ==
    LET username == strip(username_field)
        missing == username = << >> \/ password = << >>
    IN  /\ IF login_ok(admin_users, username_field, password)
           THEN /\ session' = [session EXCEPT ![s] =
                        [keys |-> @.keys \cup {"logged_in", "username"},
                         username |-> username]]
                /\ resp' = Response("login", s, "ok", TRUE, 0, << >>)
           ELSE /\ session' = session
                /\ resp' = Response("login", s, "fail", ~missing, 0, << >>)
        /\ UNCHANGED <<admin_users, clients, next_id, clock, stats>>

\* GET /logout
logout(s) ==
    /\ session' = [session EXCEPT ![s] = EmptySession]
    /\ resp' = Response("logout", s, "redirect", FALSE, 0, << >>)
    /\ UNCHANGED <<admin_users, clients, next_id, clock, stats>>


(* ----------------------- admin credentials API ------------------------ *)

MinUsernameLen == 3
MinPasswordLen == 6

CurrentPasswords == {P_admin123, P_secret, P_empty}
NewUsernames     == {U_admin, U_padded, U_padshort, U_short}
NewPasswords     == {P_admin123, P_secret, P_short}

\* The checks of change_admin_credentials, in the order of the code: "invalid"
\* (a field is missing or too short; no connection is opened), "no_admin",
\* "wrong_password", or "ok".
change_check_unverified(rows, current_password, new_username, new_password) ==
    IF current_password = << >> THEN "invalid"
    ELSE IF new_username = << >> \/ Len(new_username) < MinUsernameLen THEN "invalid"
    ELSE IF new_password = << >> \/ Len(new_password) < MinPasswordLen THEN "invalid"
    ELSE IF rows = << >> THEN "no_admin"
    ELSE "ok"

change_check(rows, current_password, new_username, new_password) ==
    IF current_password = << >> THEN "invalid"
    ELSE IF new_username = << >> \/ Len(new_username) < MinUsernameLen THEN "invalid"
    ELSE IF new_password = << >> \/ Len(new_password) < MinPasswordLen THEN "invalid"
    ELSE IF rows = << >> THEN "no_admin"
    ELSE IF ~verify_password(current_password, rows[1].password) THEN "wrong_password"
    ELSE "ok"

\* UPDATE admin_users SET username = ?, password = ?, updated_at = ? WHERE id = ?
\* with the id of the first row.
update_admin(rows, new_username, new_hash) ==
    [i \in 1..Len(rows) |->
        IF rows[i].id = rows[1].id
        THEN [rows[i] EXCEPT !.username = new_username, !.password = new_hash]
        ELSE rows[i]]

\* POST /api/admin/change-credentials (the route carries no login_required).
change_admin_credentials(s, current_password, new_username_field, new_password) ==
    LET new_username == strip(new_username_field)
        check == change_check(admin_users, current_password, new_username,
                              new_password)
    IN  /\ IF check = "ok"
           THEN /\ admin_users' = update_admin(admin_users, new_username,
                                                hash_password(new_password))
                /\ session' = [session EXCEPT ![s] =
                        [keys |-> @.keys \cup {"username"},
                         username |-> new_username]]
                /\ resp' = Response("change_credentials", s, "ok", TRUE, 0, << >>)
           ELSE /\ resp' = Response("change_credentials", s, "fail",
                                    check # "invalid", 0, << >>)
                /\ UNCHANGED <<admin_users, session>>
        /\ UNCHANGED <<clients, next_id, clock, stats>>

\* GET /api/admin/credentials: the stored username, to any caller.
get_admin_credentials(s) ==
    /\ resp' = Response("get_admin_credentials", s,
                        IF admin_users = << >> THEN "fail" ELSE "ok", TRUE, 0, << >>)
    /\ UNCHANGED <<admin_users, clients, next_id, session, clock, stats>>

(* ---------------------------- session gate ---------------------------- *)

login_required_username(s) == "username" \in session[s].keys

\* The decorator lets the handler run exactly when the session holds the
\* key 'logged_in'.
login_required(s) == "logged_in" \in session[s].keys

Redirected(op, s, id) ==
    /\ resp' = Response(op, s, "redirect", FALSE, id, << >>)
    /\ UNCHANGED <<admin_users, clients, next_id, session, clock, stats>>

(* ---------------------------- clients table --------------------------- *)

\* The whitelist of add_client and of update_client (the two lists are equal).
columns ==
    <<
       "name", "phone", "district",
       "job_role", "country", "passport_no",
       "passport_submit_date", "passport_submitted_by", "passport_fee",
       "passport_payment_mode", "passport_payment_status", "passport_payment_date",
       "passport_payment_reference", "interview_date", "interview_time",
       "interview_location", "interview_status", "interview_reschedule_date",
       "interview_remarks", "offer_letter_status", "offer_letter_date",
       "offer_letter_reference", "employer_company", "offered_salary",
       "contract_duration", "advance_payment", "advance_payment_mode",
       "advance_payment_status", "advance_payment_date", "advance_payment_time",
       "advance_payment_reference", "medical_status", "medical_date",
       "medical_report_no", "mofa_status", "mofa_number",
       "mofa_date", "vfs_status", "vfs_appointment_date",
       "vfs_reference_no", "takamual_status", "takamual_date",
       "takamual_certificate_no", "visa_status", "visa_number",
       "visa_expiry_date", "agreement_process", "agreement_date",
       "agreement_number", "client_signed", "witness_name",
       "full_payment", "full_payment_mode", "full_payment_date",
       "flying_date", "flight_details", "ticket_status",
       "remarks"
    >>

ColumnSet == {columns[i] : i \in 1..Len(columns)}

MoneyColumns == {"advance_payment", "full_payment", "passport_fee"}

NotNullColumns == {"name", "phone"}

\* DEFAULT of each column of CREATE TABLE clients that has one.
SchemaDefault ==
    [
      district |-> "", job_role |-> "",
      country |-> "", passport_no |-> "",
      passport_submit_date |-> "", passport_submitted_by |-> "self",
      passport_fee |-> 0, passport_payment_mode |-> "",
      passport_payment_status |-> "pending", passport_payment_date |-> "",
      passport_payment_reference |-> "", interview_date |-> "",
      interview_time |-> "", interview_location |-> "",
      interview_status |-> "pending", interview_reschedule_date |-> "",
      interview_remarks |-> "", offer_letter_status |-> "pending",
      offer_letter_date |-> "", offer_letter_reference |-> "",
      employer_company |-> "", offered_salary |-> "",
      contract_duration |-> "", advance_payment |-> 0,
      advance_payment_mode |-> "", advance_payment_status |-> "pending",
      advance_payment_date |-> "", advance_payment_time |-> "",
      advance_payment_reference |-> "", medical_status |-> "pending",
      medical_date |-> "", medical_report_no |-> "",
      mofa_status |-> "not_applied", mofa_number |-> "",
      mofa_date |-> "", vfs_status |-> "not_applied",
      vfs_appointment_date |-> "", vfs_reference_no |-> "",
      takamual_status |-> "not_required", takamual_date |-> "",
      takamual_certificate_no |-> "", visa_status |-> "not_applied",
      visa_number |-> "", visa_expiry_date |-> "",
      agreement_process |-> "not_created", agreement_date |-> "",
      agreement_number |-> "", client_signed |-> "no",
      witness_name |-> "", full_payment |-> 0,
      full_payment_mode |-> "", full_payment_date |-> "",
      flying_date |-> "", flight_details |-> "",
      ticket_status |-> "not_booked", remarks |-> ""
    ]

\* The columns of a row of clients.  created_at is written by the INSERT and
\* never read or written again; it is left out.
RowColumns == {"id", "updated_at"} \cup ColumnSet

(* JSON values of a request body. *)
Null   == [kind |-> "null"]
Str(s) == [kind |-> "str", s |-> s]
Num(n) == [kind |-> "num", n |-> n]

\* Python truth of a JSON value: None, '' and 0 are false.
Truthy(v) ==
    CASE v.kind = "null" -> FALSE
      [] v.kind = "str"  -> v.s # ""
      [] v.kind = "num"  -> v.n # 0

\* float(val) of a JSON number, and str(val) of a JSON string.
ToFloat(v) == v.n
ToStr(v)   == v.s


(* Request bodies.  A body is a function from its field names to JSON values;
   values are of the JSON type the column expects: text columns receive a
   string or null, money columns a number, '' (a blank form field) or null. *)

CreateBodies ==
    { [name |-> Str("A"), phone |-> Str("1")],
      [name |-> Str("A"), phone |-> Str("1"), is_admin |-> Str("yes")],
      [name |-> Str("A"), is_admin |-> Str("yes")],
      [name |-> Str(""), phone |-> Str("")],
      [name |-> Str("C"), phone |-> Null],
      [is_admin |-> Str("yes")] }

UpdateBodies ==
    { [visa_status |-> Str("approved")],
      [phone |-> Str("9"), is_admin |-> Str("yes")],
      [name |-> Null, passport_fee |-> Str("")],
      [k \in {} |-> Null] }

\* Bodies that set the columns get_stats reads.
StatsCreateBodies ==
    { [name |-> Str("A"), phone |-> Str("1")],
      [name |-> Str("B"), phone |-> Str("2"), visa_status |-> Str("approved"),
       flying_date |-> Str("2025-01-01"), interview_status |-> Str("selected"),
       passport_submitted_by |-> Str("agency"), passport_fee |-> Num(50),
       advance_payment |-> Num(100), full_payment |-> Num(200)] }

StatsUpdateBodies ==
    { [visa_status |-> Str("processing"), passport_fee |-> Num(30),
       advance_payment |-> Null] }

\* Bodies that move a record through the other values get_stats tells apart.
ReferenceUpdateBodies ==
    StatsUpdateBodies \cup
    { [visa_status |-> Str(""), interview_status |-> Str("scheduled"),
       flying_date |-> Str("")],
      [visa_status |-> Str("rejected"), interview_status |-> Str("passed"),
       passport_submitted_by |-> Str("agency")] }

\* The loop of add_client over the whitelist: the columns of the INSERT.
insert_cols_any_field(data) ==
    {col \in DOMAIN data : data[col] # Null}

insert_cols(data) ==
    {col \in ColumnSet : col \in DOMAIN data /\ data[col] # Null}

\* The value add_client binds for a column of the INSERT.
insert_val(data, col) ==
    LET val == data[col]
    IN  IF col \in MoneyColumns
        THEN (IF Truthy(val) THEN ToFloat(val) ELSE 0)
        ELSE (IF Truthy(val) THEN ToStr(val) ELSE "")

\* The INSERT violates a constraint: a NOT NULL column without a default is
\* not among the columns given.
insert_fails(data) == ~(NotNullColumns \subseteq insert_cols(data))

\* The row the INSERT stores; now is the reading of CURRENT_TIMESTAMP.
inserted_row(data, new_id, now) ==
    [c \in RowColumns |->
        IF c = "id" THEN new_id
        ELSE IF c = "updated_at" THEN now
        ELSE IF c \in insert_cols(data) THEN insert_val(data, c)
        ELSE SchemaDefault[c]]

\* POST /api/clients, served when the clock reads now.  A statement that
\* raises stores nothing; the id sequence keeps the value it drew under
\* PostgreSQL (SERIAL) and not under SQLite: skipped tells which happened.
add_client(s, data, now, skipped) ==
    IF ~login_required(s) THEN Redirected("add_client", s, 0)
    ELSE IF insert_cols(data) = {}
    THEN /\ resp' = Response("add_client", s, "fail", FALSE, 0, << >>)
         /\ UNCHANGED <<admin_users, clients, next_id, session, clock, stats>>
    ELSE IF insert_fails(data)
    THEN /\ next_id' = IF skipped THEN next_id + 1 ELSE next_id
         /\ resp' = Response("add_client", s, "fail", TRUE, 0, << >>)
         /\ UNCHANGED <<admin_users, clients, session, clock, stats>>
    ELSE /\ clock' = now
         /\ clients' = clients \cup {inserted_row(data, next_id, now)}
         /\ next_id' = next_id + 1
         /\ resp' = Response("add_client", s, "ok", TRUE, next_id, << >>)
         /\ UNCHANGED <<admin_users, session, stats>>

\* The loop of update_client over the whitelist: the columns of the SET list.
update_cols(data) == {col \in ColumnSet : col \in DOMAIN data}

\* The value update_client binds for a column of the SET list.
update_val(data, col) ==
    LET val == data[col]
    IN  IF col \in MoneyColumns
        THEN (IF Truthy(val) THEN ToFloat(val) ELSE 0)
        ELSE (IF Truthy(val) THEN ToStr(val) ELSE "")

\* UPDATE clients SET <the columns of the body>, updated_at = ? WHERE id = ?
update_row_all_defaults(row, data, now) ==
    [c \in RowColumns |->
        IF c \in update_cols(data) THEN update_val(data, c)
        ELSE IF c = "updated_at" THEN now
        ELSE IF c \in DOMAIN SchemaDefault THEN SchemaDefault[c]
        ELSE row[c]]

update_row(row, data, now) ==
    [c \in RowColumns |->
        IF c \in update_cols(data) THEN update_val(data, c)
        ELSE IF c = "updated_at" THEN now
        ELSE row[c]]

update_rows_upsert(rows, client_id, data, now) ==
    IF \E r \in rows : r.id = client_id
    THEN {IF r.id = client_id THEN update_row(r, data, now) ELSE r : r \in rows}
    ELSE rows \cup {update_row([c \in RowColumns |->
                                   IF c = "id" THEN client_id
                                   ELSE IF c \in DOMAIN SchemaDefault
                                   THEN SchemaDefault[c] ELSE ""], data, now)}

update_rows(rows, client_id, data, now) ==
    {IF r.id = client_id THEN update_row(r, data, now) ELSE r : r \in rows}

\* PUT /api/clients/<client_id>, served when the clock reads now.
update_client(s, client_id, data, now) ==
    IF ~login_required(s) THEN Redirected("update_client", s, 0)
    ELSE /\ clock' = now
         /\ clients' = update_rows(clients, client_id, data, now)
         /\ resp' = Response("update_client", s, "ok", TRUE, client_id, << >>)
         /\ UNCHANGED <<admin_users, next_id, session, stats>>

\* DELETE FROM clients WHERE id = ?
delete_rows(rows, client_id) == {r \in rows : r.id # client_id}

\* DELETE /api/clients/<client_id>
delete_client(s, client_id) ==
    IF ~login_required(s) THEN Redirected("delete_client", s, 0)
    ELSE /\ clients' = delete_rows(clients, client_id)
         /\ resp' = Response("delete_client", s, "ok", TRUE, client_id, << >>)
         /\ UNCHANGED <<admin_users, next_id, session, clock, stats>>

\* DELETE /api/clients/clear
clear_all_clients(s) ==
    IF ~login_required(s) THEN Redirected("clear_all_clients", s, 0)
    ELSE /\ clients' = {}
         /\ resp' = Response("clear_all_clients", s, "ok", TRUE, 0, << >>)
         /\ UNCHANGED <<admin_users, next_id, session, clock, stats>>

RECURSIVE order_by_id_asc(_)
order_by_id_asc(rows) ==
    IF rows = {} THEN << >>
    ELSE LET low == CHOOSE r \in rows : \A q \in rows : r.id <= q.id
         IN  <<low>> \o order_by_id_asc(rows \ {low})

\* SELECT * FROM clients ORDER BY id DESC
RECURSIVE order_by_id_desc(_)
order_by_id_desc(rows) ==
    IF rows = {} THEN << >>
    ELSE LET top == CHOOSE r \in rows : \A q \in rows : q.id <= r.id
         IN  <<top>> \o order_by_id_desc(rows \ {top})

\* GET /api/clients
get_clients(s) ==
    IF ~login_required(s) THEN Redirected("get_clients", s, 0)
    ELSE /\ resp' = Response("get_clients", s, "ok", TRUE, 0, order_by_id_desc(clients))
         /\ UNCHANGED <<admin_users, clients, next_id, session, clock, stats>>

\* GET /api/clients/<client_id>
get_client(s, client_id) ==
    IF ~login_required(s) THEN Redirected("get_client", s, 0)
    ELSE LET found == {r \in clients : r.id = client_id}
         IN  /\ resp' = IF found = {}
                        THEN Response("get_client", s, "not_found", TRUE, client_id, << >>)
                        ELSE Response("get_client", s, "ok", TRUE, client_id,
                                      <<CHOOSE r \in found : TRUE>>)
             /\ UNCHANGED <<admin_users, clients, next_id, session, clock, stats>>


(* ------------------------------ stats API ----------------------------- *)

RECURSIVE SumOf(_, _)
SumOf(rows, col) ==
    IF rows = {} THEN 0
    ELSE LET r == CHOOSE q \in rows : TRUE
         IN  r[col] + SumOf(rows \ {r}, col)

\* The statements of get_stats, in the order of the code, each with the key of
\* the response it fills.  Statement 8 is followed by the addition that
\* gives total_revenue.
total_clients(rows) == Cardinality(rows)

interview_pending(rows) ==
    Cardinality({r \in rows : r.interview_status \in {"pending", "scheduled"}})

interview_passed(rows) ==
    Cardinality({r \in rows : r.interview_status \in {"selected", "passed"}})

visa_approved(rows) == Cardinality({r \in rows : r.visa_status = "approved"})

visa_processing(rows) ==
    Cardinality({r \in rows :
        r.visa_status \notin {"approved", "rejected", "not_applied", ""}})

total_advance(rows) == SumOf(rows, "advance_payment")

total_full_payment(rows) == SumOf(rows, "full_payment")

total_passport_fee_all_rows(rows) == SumOf(rows, "passport_fee")

total_passport_fee(rows) ==
    SumOf({r \in rows : r.passport_submitted_by = "agency"}, "passport_fee")

ready_to_fly_any_status(rows) ==
    Cardinality({r \in rows : r.flying_date # ""})

ready_to_fly(rows) ==
    Cardinality({r \in rows : r.visa_status = "approved" /\ r.flying_date # ""})

total_revenue_requeried(result, rows) ==
    total_advance(rows) + total_full_payment(rows) + total_passport_fee(rows)

total_revenue(result, rows) ==
    result.total_advance + result.total_full_payment + result.total_passport_fee

LastStatement == 9

\* The response dictionary after statement pc has run on the table as it is.
stats_after(pc, result, rows) ==
    CASE pc = 1 -> result @@ [total_clients |-> total_clients(rows)]
      [] pc = 2 -> result @@ [interview_pending |-> interview_pending(rows)]
      [] pc = 3 -> result @@ [interview_passed |-> interview_passed(rows)]
      [] pc = 4 -> result @@ [visa_approved |-> visa_approved(rows)]
      [] pc = 5 -> result @@ [visa_processing |-> visa_processing(rows)]
      [] pc = 6 -> result @@ [total_advance |-> total_advance(rows)]
      [] pc = 7 -> result @@ [total_full_payment |-> total_full_payment(rows)]
      [] pc = 8 -> LET r8 == result @@ [total_passport_fee |-> total_passport_fee(rows)]
                   IN  r8 @@ [total_revenue |-> total_revenue(r8, rows)]
      [] pc = 9 -> result @@ [ready_to_fly |-> ready_to_fly(rows)]

\* The response dictionary of a call whose statements 1..pc all run on rows.
RECURSIVE stats_on(_, _)
stats_on(pc, rows) ==
    IF pc = 0 THEN << >> ELSE stats_after(pc, stats_on(pc - 1, rows), rows)

\* GET /api/stats: the gate, get_db() and stats = {}.
get_stats_begin(s) ==
    IF ~login_required(s) THEN Redirected("get_stats", s, 0)
    ELSE /\ stats.pc = 0
         /\ stats' = [pc |-> 1, result |-> << >>]
         /\ UNCHANGED <<admin_users, clients, next_id, session, clock, resp>>

\* The next statement of the call in flight; after the last one, the response.
get_stats_query ==
    /\ stats.pc \in 1..LastStatement
    /\ LET result == stats_after(stats.pc, stats.result, clients)
       IN  IF stats.pc < LastStatement
           THEN /\ stats' = [stats EXCEPT !.pc = @ + 1, !.result = result]
                /\ resp' = resp
           ELSE /\ stats' = NoStats
                /\ resp' = [op |-> "get_stats", auth |-> TRUE,
                            status |-> "ok", db |-> TRUE, id |-> 0,
                            rows |-> <<result>>, conn |-> "closed"]
    /\ UNCHANGED <<admin_users, clients, next_id, session, clock>>

(* --------------------------- storage faults --------------------------- *)

(* A run of a handler in which a statement raises after get_db() gave a
   connection (the database is locked, the server closed the connection).
   Nothing is committed.  released: the statement stands in a try whose
   except branch closes the connection; without one the exception leaves the
   handler and no conn.close() runs. *)
StatementRaises(op, s, id, released) ==
    /\ resp' = [op |-> op, auth |-> Authenticated(s),
                status |-> IF released THEN "fail" ELSE "error",
                db |-> TRUE, id |-> id, rows |-> << >>,
                conn |-> IF released THEN "closed" ELSE "open"]
    /\ UNCHANGED <<admin_users, clients, next_id, session, clock, stats>>

\* login: the SELECT stands in no try; it is reached with both fields given.
login_raises(s, username_field, password) ==
    /\ strip(username_field) # << >>
    /\ password # << >>
    /\ StatementRaises("login", s, 0, FALSE)

\* get_admin_credentials: the SELECT stands in no try.
get_admin_credentials_raises(s) ==
    StatementRaises("get_admin_credentials", s, 0, FALSE)

\* change_admin_credentials: the SELECT and the UPDATE stand in no try; they
\* are reached when the three fields pass the checks before get_db().
change_admin_credentials_raises(s, current_password, new_username_field, new_password) ==
    /\ change_check(admin_users, current_password, strip(new_username_field),
                    new_password) # "invalid"
    /\ StatementRaises("change_credentials", s, 0, FALSE)

\* get_clients, get_client, delete_client, clear_all_clients: no try.
get_clients_raises(s) ==
    /\ login_required(s)
    /\ StatementRaises("get_clients", s, 0, FALSE)

get_client_raises(s, client_id) ==
    /\ login_required(s)
    /\ StatementRaises("get_client", s, client_id, FALSE)

delete_client_raises(s, client_id) ==
    /\ login_required(s)
    /\ StatementRaises("delete_client", s, client_id, FALSE)

clear_all_clients_raises(s) ==
    /\ login_required(s)
    /\ StatementRaises("clear_all_clients", s, 0, FALSE)

\* add_client and update_client: execute and commit stand in a try whose
\* except branch closes the cursor and the connection.
add_client_raises(s, data) ==
    /\ login_required(s)
    /\ insert_cols(data) # {}
    /\ StatementRaises("add_client", s, 0, TRUE)

update_client_raises(s, client_id) ==
    /\ login_required(s)
    /\ StatementRaises("update_client", s, client_id, TRUE)

\* get_stats: the statement the call in flight runs next raises; no try.
get_stats_raises ==
    /\ stats.pc \in 1..LastStatement
    /\ stats' = NoStats
    /\ resp' = [op |-> "get_stats", auth |-> TRUE, status |-> "error",
                db |-> TRUE, id |-> 0, rows |-> << >>, conn |-> "open"]
    /\ UNCHANGED <<admin_users, clients, next_id, session, clock>>

(* --------------------------- specification ---------------------------- *)

\* A request to the login and credential handlers, or a run of init_db.
AuthStep(LU, LP, CP, NU, NP) ==
    \/ init_db
    \/ \E s \in Sessions, u \in LU, p \in LP : login(s, u, p)
    \/ \E s \in Sessions : logout(s)
    \/ \E s \in Sessions, c \in CP, u \in NU, p \in NP :
          change_admin_credentials(s, c, u, p)
    \/ \E s \in Sessions : get_admin_credentials(s)

\* A request of a browser of S to a handler of the clients API that writes.
\* The id sequence stops at max_id and the clock at max_clock.
ClientWriteStep(S, CB, UB, max_id, max_clock) ==
    \/ \E s \in S, data \in CB, now \in clock..max_clock, skipped \in BOOLEAN :
          /\ next_id <= max_id
          /\ add_client(s, data, now, skipped)
    \/ \E s \in S, id \in 1..max_id, data \in UB, now \in clock..max_clock :
          update_client(s, id, data, now)
    \/ \E s \in S, id \in 1..max_id : delete_client(s, id)
    \/ \E s \in S : clear_all_clients(s)

\* A request of a browser of S to a handler of the clients API that reads.
ClientReadStep(S, max_id) ==
    \/ \E s \in S : get_clients(s)
    \/ \E s \in S, id \in 1..max_id : get_client(s, id)

ClientStep(S, CB, UB, max_id, max_clock) ==
    \/ ClientWriteStep(S, CB, UB, max_id, max_clock)
    \/ ClientReadStep(S, max_id)

(* The credential store and the sessions alone: the login and credential
   handlers on every input above. *)
CredNext ==
    AuthStep(LoginUsernames, LoginPasswords, CurrentPasswords, NewUsernames,
             NewPasswords)

SpecCred == Init /\ [][CredNext]_vars

(* The session gate in front of the repository: the login and credential
   handlers, every handler of the clients API with one body each, and the
   gate of get_stats (the statements of a call that passed the gate are
   steps of SpecStats). *)
AuthNext ==
    \/ AuthStep({U_admin, U_padded, U_empty}, {P_admin123, P_secret, P_empty},
                {P_admin123, P_secret, P_empty}, {U_admin, U_padded, U_padshort},
                {P_secret, P_short})
    \/ ClientStep(Sessions, {[name |-> Str("A"), phone |-> Str("1")]},
                  {[visa_status |-> Str("approved")]}, AuthMaxId, AuthMaxClock)
    \/ \E s \in Sessions : get_stats_begin(s)

SpecAuth == Init /\ [][AuthNext]_vars

(* The client repository: one browser that logs in with the default
   credentials and out, and every handler of the clients API on the bodies
   above. *)
ClientNext ==
    \/ login("s1", U_admin, P_admin123)
    \/ logout("s1")
    \/ ClientStep({"s1"}, CreateBodies, UpdateBodies, MaxId, MaxClock)

SpecClients == Init /\ [][ClientNext]_vars

(* The stats aggregator: one browser that logs in with the default
   credentials, the writing handlers of the clients API on bodies that set what
   get_stats reads, and one get_stats call at a time, whose statements
   interleave with the other requests. *)
StatsNext ==
    \/ login("s1", U_admin, P_admin123)
    \/ ClientWriteStep({"s1"}, StatsCreateBodies, StatsUpdateBodies, StatsMaxId,
                       StatsMaxClock)
    \/ get_stats_begin("s1")
    \/ get_stats_query

SpecStats == Init /\ [][StatsNext]_vars

(* The connections: one browser, every handler that calls get_db() on one
   input each, and for each of them the run in which a statement raises. *)
ConnNext ==
    \/ login("s1", U_admin, P_admin123)
    \/ get_admin_credentials("s1")
    \/ change_admin_credentials("s1", P_admin123, U_admin, P_secret)
    \/ ClientStep({"s1"}, {[name |-> Str("A"), phone |-> Str("1")]},
                  {[visa_status |-> Str("approved")]}, ConnMaxId, ConnMaxClock)
    \/ get_stats_begin("s1")
    \/ get_stats_query
    \/ login_raises("s1", U_admin, P_admin123)
    \/ get_admin_credentials_raises("s1")
    \/ change_admin_credentials_raises("s1", P_admin123, U_admin, P_secret)
    \/ get_clients_raises("s1")
    \/ \E id \in 1..ConnMaxId : get_client_raises("s1", id)
    \/ \E id \in 1..ConnMaxId : delete_client_raises("s1", id)
    \/ clear_all_clients_raises("s1")
    \/ add_client_raises("s1", [name |-> Str("A"), phone |-> Str("1")])
    \/ \E id \in 1..ConnMaxId : update_client_raises("s1", id)
    \/ get_stats_raises

SpecConn == Init /\ [][ConnNext]_vars

(* verify_password on its own: the arguments of a call are drawn from the
   passwords a form can send and the values a password column can hold: the
   digest of each, each in plaintext (a row older than the digests), and
   values of 63, 64 and 65 characters that are the digest of none. *)
VerifyInputs == {P_admin123, P_secret, P_short, P_empty, U_admin, U_root}

VerifyStored ==
    {hash_password(p) : p \in VerifyInputs} \cup VerifyInputs \cup
    { OLD_WRONG_HASH,
      SubSeq(hash_password(P_secret), 1, DigestLen - 1),
      hash_password(P_secret) \o <<".">> }

VerifyInit ==
    /\ clock = 0
    /\ admin_users = init_db_admin(<< >>)
    /\ clients = {}
    /\ next_id = 1
    /\ session = [s \in Sessions |-> EmptySession]
    /\ stats = NoStats
    /\ \E p \in VerifyInputs, st \in VerifyStored :
          resp = [op |-> "call", input_password |-> p, stored_password |-> st]

verify_password_call ==
    /\ resp.op = "call"
    /\ resp' = [op |-> "verify_password",
                input_password |-> resp.input_password,
                stored_password |-> resp.stored_password,
                result |-> verify_password(resp.input_password,
                                           resp.stored_password)]
    /\ UNCHANGED <<admin_users, clients, next_id, session, clock, stats>>

SpecVerify == VerifyInit /\ [][verify_password_call]_vars

(* The listing of the repository: one browser that logs in with the default
   credentials, creates that succeed and creates the INSERT refuses, and
   every other handler of the clients API. *)
ListNext ==
    \/ login("s1", U_admin, P_admin123)
    \/ ClientStep({"s1"},
                  {[name |-> Str("A"), phone |-> Str("1")],
                   [name |-> Str("C"), phone |-> Null]},
                  {[visa_status |-> Str("approved")]}, ListMaxId, ListMaxClock)

SpecList == Init /\ [][ListNext]_vars

(* The stats aggregator alone on the repository: as SpecStats, but a request
   that writes is served only while no get_stats call is in flight. *)
QuietStatsNext ==
    \/ login("s1", U_admin, P_admin123)
    \/ /\ stats.pc = 0
       /\ ClientWriteStep({"s1"}, StatsCreateBodies, ReferenceUpdateBodies,
                          StatsMaxId, StatsMaxClock)
    \/ get_stats_begin("s1")
    \/ get_stats_query

SpecStatsQuiet == Init /\ [][QuietStatsNext]_vars


(* ------------------- claims: gate and credential store ---------------- *)

GatedOps == {"get_clients", "add_client", "get_client", "update_client",
             "delete_client", "clear_all_clients", "get_stats"}

Passwords == LoginPasswords \cup CurrentPasswords \cup NewPasswords

\* C1: a request to a /api/clients* endpoint or to /api/stats that arrives on
\* a session without the authenticated flag is answered by the redirect,
\* without a call of get_db(), without client data in the response, and with
\* table clients and its id sequence as they were.
C1_GateRejectsAnonymous ==
    [][ (resp'.op \in GatedOps /\ ~resp'.auth) =>
           /\ resp'.status = "redirect"
           /\ ~resp'.db
           /\ resp'.rows = << >>
           /\ clients' = clients
           /\ next_id' = next_id ]_vars

\* C1 witness: an anonymous request to a gated endpoint was turned away while
\* the repository held a record.
C1_Witness ==
    /\ resp.op \in GatedOps
    /\ ~resp.auth
    /\ resp.status = "redirect"
    /\ clients # {}

\* C2: no request that arrives on an Anonymous session changes the stored
\* admin account or a client record.
C2_AnonymousNeverMutates ==
    [][ (resp'.op # "init_db" /\ ~resp'.auth) =>
           (admin_users' = admin_users /\ clients' = clients) ]_vars

\* C3: a session gains the authenticated flag only in a POST /login whose
\* (trimmed) username is that of a stored account whose credential the
\* password verifies against; it loses the flag only in a logout, which
\* leaves the session without the flag and without a username.
C3_SessionTransitions ==
    [][ \A s \in Sessions :
          /\ (~Authenticated(s) /\ Authenticated(s)') =>
                \E u \in LoginUsernames, p \in LoginPasswords :
                   /\ login(s, u, p)
                   /\ u # << >> /\ p # << >>
                   /\ \E i \in 1..Len(admin_users) :
                         /\ admin_users[i].username = strip(u)
                         /\ verify_password(p, admin_users[i].password)
          /\ (Authenticated(s) /\ ~Authenticated(s)') =>
                /\ logout(s)
                /\ session'[s].keys = {}
                /\ session'[s].username = << >> ]_vars

\* C3 witness: a session is authenticated by a login with credentials that a
\* credential change had set.
C3_Witness ==
    /\ resp.op = "login"
    /\ resp.status = "ok"
    /\ \E s \in Sessions : Authenticated(s) /\ session[s].username = U_root

\* C4: a credential change whose current password does not verify, whose new
\* username (the trimmed field) has fewer than 3 characters or whose new
\* password has fewer than 6 fails and changes neither the account nor a
\* session; any other overwrites the one account row with the new username
\* and the digest of the new password and sets the caller's session
\* username, after which login with the new pair succeeds and login with the
\* old password, when it differs, fails.
C4_ChangeCredentials ==
    [][ (resp'.op = "change_credentials") =>
        \A s \in Sessions, c \in CurrentPasswords, u \in NewUsernames,
           p \in NewPasswords :
          change_admin_credentials(s, c, u, p) =>
            LET new_username == strip(u)
                old == admin_users[1]
                rejected == \/ ~verify_password(c, old.password)
                            \/ Len(new_username) < 3
                            \/ Len(p) < 6
            IN  IF rejected
                THEN /\ resp'.status = "fail"
                     /\ admin_users' = admin_users
                     /\ session' = session
                ELSE /\ resp'.status = "ok"
                     /\ admin_users' = <<[id |-> old.id, username |-> new_username,
                                          password |-> hash_password(p)]>>
                     /\ session'[s].username = new_username
                     /\ session'[s].keys = session[s].keys \cup {"username"}
                     /\ \A t \in Sessions \ {s} : session'[t] = session[t]
                     /\ login_ok(admin_users', new_username, p)
                     /\ \A q \in Passwords :
                           (verify_password(q, old.password) /\ q # p) =>
                              ~login_ok(admin_users', new_username, q) ]_vars

\* C4 witness: a credential change has succeeded and the account carries the
\* new username and the digest of the new password.
C4_Witness ==
    /\ resp.op = "change_credentials"
    /\ resp.status = "ok"
    /\ admin_users[1].username = U_root
    /\ admin_users[1].password = hash_password(P_secret)

\* C5: table admin_users always holds exactly one row, whose password is the
\* 64-character digest of a password, and a run of init_db leaves it as it is.
C5_OneValidAdmin ==
    /\ [](/\ Len(admin_users) = 1
          /\ Len(admin_users[1].password) = 64
          /\ \E p \in Passwords : admin_users[1].password = hash_password(p))
    /\ [][ resp'.op = "init_db" => admin_users' = admin_users ]_vars

\* C5 witness: init_db has run on an account that a credential change had set.
C5_Witness ==
    /\ resp.op = "init_db"
    /\ Len(admin_users) = 1
    /\ admin_users[1].username = U_root
    /\ admin_users[1].password = hash_password(P_secret)
    /\ \E s \in Sessions : session[s].username = U_root


(* ---------------------- claims: client repository --------------------- *)

ClientIdsOf(rows) == {r.id : r \in rows}

\* What a column holds after it was given JSON value v: the number or the
\* string, and 0 or '' for null and for a blank.
StoredValue(col, v) ==
    IF col \in MoneyColumns
    THEN (IF v.kind = "num" THEN v.n ELSE 0)
    ELSE (IF v.kind = "str" THEN v.s ELSE "")

\* The fields of a body that are in the whitelist.
Known(data) == [k \in (DOMAIN data) \cap ColumnSet |-> data[k]]

\* C6: an update of an existing record gives each whitelisted field of the
\* body its new value and updated_at the time of the request; the other
\* whitelisted fields, the id, and every other record stay as they were.
C6_PartialUpdate ==
    [][ (resp'.op = "update_client" /\ resp'.auth
          /\ resp'.id \in ClientIdsOf(clients)) =>
        \A s \in Sessions, data \in UpdateBodies, now \in {clock'} :
          update_client(s, resp'.id, data, now) =>
            /\ ClientIdsOf(clients') = ClientIdsOf(clients)
            /\ Cardinality(clients') = Cardinality(clients)
            /\ \A r \in clients :
                  IF r.id # resp'.id
                  THEN r \in clients'
                  ELSE \E q \in clients' :
                          /\ q.id = r.id
                          /\ q.updated_at = now
                          /\ \A c \in ColumnSet :
                                q[c] = IF c \in DOMAIN data
                                       THEN StoredValue(c, data[c])
                                       ELSE r[c] ]_vars

\* C6 witness: of two records, the one created with name "A" and phone "1"
\* was updated and has visa_status "approved".
C6_Witness ==
    /\ resp.op = "update_client"
    /\ resp.status = "ok"
    /\ Cardinality(clients) = 2
    /\ \E r \in clients :
          /\ r.id = resp.id
          /\ r.name = "A" /\ r.phone = "1" /\ r.visa_status = "approved"

OneKnownOneUnknown(data) ==
    /\ Cardinality(DOMAIN data) = 2
    /\ Cardinality((DOMAIN data) \cap ColumnSet) = 1

\* C7 as claimed: a create or an update whose body holds one whitelisted and
\* one unknown field succeeds.
C7_OneKnownFieldSucceeds ==
    [][ (resp'.op \in {"add_client", "update_client"} /\ resp'.auth) =>
        \A s \in Sessions, now \in {clock'} :
          IF resp'.op = "add_client"
          THEN \A data \in CreateBodies, skipped \in BOOLEAN :
                  (OneKnownOneUnknown(data) /\ add_client(s, data, now, skipped))
                     => resp'.status = "ok"
          ELSE \A data \in UpdateBodies :
                  (OneKnownOneUnknown(data)
                     /\ update_client(s, resp'.id, data, now))
                     => resp'.status = "ok" ]_vars

\* C7 as amended: a create or an update does what it does on the body without
\* its unknown fields and no row gains a column.  The update succeeds; the
\* create succeeds when the whitelisted fields give name and phone, and
\* otherwise fails as it does without the unknown field.
C7_WhitelistContainment ==
    [][ (resp'.op \in {"add_client", "update_client"} /\ resp'.auth) =>
        /\ \A r \in clients' : DOMAIN r = RowColumns
        /\ \A s \in Sessions, now \in {clock'} :
              IF resp'.op = "add_client"
              THEN \A data \in CreateBodies, skipped \in BOOLEAN :
                      add_client(s, data, now, skipped) =>
                         /\ add_client(s, Known(data), now, skipped)
                         /\ (resp'.status = "ok") <=>
                               \A c \in NotNullColumns :
                                  c \in DOMAIN data /\ data[c] # Null
              ELSE \A data \in UpdateBodies :
                      update_client(s, resp'.id, data, now) =>
                         /\ update_client(s, resp'.id, Known(data), now)
                         /\ resp'.status = "ok" ]_vars

\* C7 witness: the update whose body holds phone and an unknown field has
\* stored the phone.
C7_Witness ==
    /\ resp.op = "update_client"
    /\ resp.status = "ok"
    /\ \E r \in clients : r.id = resp.id /\ r.phone = "9"

\* C8: the record a successful create has stored has a non-empty name and a
\* non-empty phone.
C8_CreatedNameAndPhoneNonEmpty ==
    (resp.op = "add_client" /\ resp.status = "ok") =>
        \A r \in clients : r.id = resp.id => (r.name # "" /\ r.phone # "")

\* C9: an update or a delete of an id that is not in the repository, by an
\* authenticated session, reports success and leaves the repository and its
\* id sequence as they were.
C9_AbsentIdIsNoOp ==
    [][ (resp'.op \in {"update_client", "delete_client"} /\ resp'.auth
          /\ resp'.id \notin ClientIdsOf(clients)) =>
           /\ resp'.status = "ok"
           /\ clients' = clients
           /\ next_id' = next_id ]_vars

\* C9 witness: an update of an id that is not in the repository was answered
\* with success while the repository held another record.
C9_Witness ==
    /\ resp.op = "update_client"
    /\ resp.status = "ok"
    /\ resp.id \notin ClientIdsOf(clients)
    /\ clients # {}

(* ------------------------- claims: stats API -------------------------- *)

\* C10: in every stats response total_revenue is the sum of the
\* total_advance, total_full_payment and total_passport_fee of that response.
C10_RevenueAdditivity ==
    (resp.op = "get_stats" /\ resp.status = "ok") =>
        LET r == resp.rows[1]
        IN  r.total_revenue =
               r.total_advance + r.total_full_payment + r.total_passport_fee

\* C10 witness: a stats response with revenue whose total_advance is not that
\* of the table as it is now: a write came between its statements.
C10_Witness ==
    /\ resp.op = "get_stats"
    /\ resp.status = "ok"
    /\ resp.rows[1].total_revenue > 0
    /\ resp.rows[1].total_advance # total_advance(clients)

(* ---- C11 ---- *)

\* The sum of a column over the rows, taken id by id up to n.
RECURSIVE SumById(_, _, _)
SumById(rows, col, n) ==
    IF n = 0 THEN 0
    ELSE LET at == {r \in rows : r.id = n}
         IN  (IF at = {} THEN 0 ELSE (CHOOSE r \in at : TRUE)[col])
             + SumById(rows, col, n - 1)

CountWhere(rows, col, values) ==
    Cardinality({r.id : r \in {q \in rows : q[col] \in values}})

\* C11: a stats call with no write between its sub-queries answers, for the
\* repository as it is, total_clients = the number of rows, interview_pending
\* = rows with interview status pending or scheduled, interview_passed = rows
\* with interview status selected or passed, visa_approved = rows with visa
\* status approved, visa_processing = rows with visa status none of approved,
\* rejected, not_applied and '', ready_to_fly = approved rows with a non-empty
\* flying date, total_advance and total_full_payment = the sums over all rows,
\* total_passport_fee = the sum of passport_fee over the rows submitted by
\* the agency; on the empty repository every count and sum is 0.
C11_StatsReference ==
    [][ (stats.pc = LastStatement /\ get_stats_query) =>
          LET r == resp'.rows[1]
              n == next_id - 1
          IN  /\ r.total_clients = Cardinality({q.id : q \in clients})
              /\ r.interview_pending =
                    CountWhere(clients, "interview_status", {"pending", "scheduled"})
              /\ r.interview_passed =
                    CountWhere(clients, "interview_status", {"selected", "passed"})
              /\ r.visa_approved = CountWhere(clients, "visa_status", {"approved"})
              /\ r.visa_processing =
                    Cardinality({q.id : q \in clients}) -
                    CountWhere(clients, "visa_status",
                               {"approved", "rejected", "not_applied", ""})
              /\ r.ready_to_fly =
                    Cardinality({q.id : q \in
                        {c \in clients : c.visa_status = "approved"
                                          /\ c.flying_date # ""}})
              /\ r.total_advance = SumById(clients, "advance_payment", n)
              /\ r.total_full_payment = SumById(clients, "full_payment", n)
              /\ r.total_passport_fee =
                    SumById({c \in clients : c.passport_submitted_by = "agency"},
                            "passport_fee", n)
              /\ (clients = {} =>
                    \A k \in DOMAIN r : r[k] = 0) ]_vars

\* A stats response for two records: one approved with a flying date and an
\* agency fee, one in processing whose fee the client paid.
C11_Witness ==
    /\ resp.op = "get_stats"
    /\ stats.pc = 0
    /\ Cardinality(clients) = 2
    /\ resp.rows[1].total_clients = 2
    /\ resp.rows[1].visa_processing = 1
    /\ resp.rows[1].ready_to_fly = 1
    /\ resp.rows[1].total_passport_fee = 50
    /\ SumOf(clients, "passport_fee") = 80

(* ---- C12 ---- *)

\* C12: after any sequence of creates, updates, deletes and clears, the
\* listing holds every record of the repository exactly once in strictly
\* descending order of id; ids are unique, an update changes no id, and a
\* create receives an id larger than every id issued before it, deleted
\* records included (the id sequence never goes back).
C12_ListingOrder ==
    /\ []( /\ \A r, q \in clients : r.id = q.id => r = q
           /\ \A r \in clients : r.id < next_id
           /\ (resp.op = "add_client" /\ resp.status = "ok" => resp.id < next_id)
           /\ (resp.op = "get_clients" /\ resp.status = "ok" =>
                 \A i \in 1..(Len(resp.rows) - 1) :
                     resp.rows[i].id > resp.rows[i + 1].id) )
    /\ [][ /\ next_id' >= next_id
           /\ (resp'.op = "get_clients" /\ resp'.status = "ok" =>
                 /\ {resp'.rows[i] : i \in 1..Len(resp'.rows)} = clients
                 /\ Len(resp'.rows) = Cardinality(clients))
           /\ (resp'.op = "update_client" =>
                 ClientIdsOf(clients') = ClientIdsOf(clients))
           /\ (resp'.op = "add_client" /\ resp'.status = "ok" =>
                 /\ resp'.id >= next_id
                 /\ \A r \in clients : r.id < resp'.id
                 /\ ClientIdsOf(clients') = ClientIdsOf(clients) \cup {resp'.id})
           /\ (ClientIdsOf(clients') \ ClientIdsOf(clients) # {} =>
                 resp'.op = "add_client") ]_vars

\* Records 1, 2 and 3 were created, record 2 was deleted before record 3 was
\* created, and the listing reads 3, 1.
C12_Witness ==
    /\ resp.op = "get_clients"
    /\ resp.status = "ok"
    /\ Len(resp.rows) = 2
    /\ resp.rows[1].id = 3
    /\ resp.rows[2].id = 1
    /\ ClientIdsOf(clients) = {1, 3}

(* ---- C13 ---- *)

\* C13: the digest is injective on the passwords and 64 characters long;
\* verify(P, digest(P)) is true, verify(P, digest(Q)) is false for P # Q,
\* and against a stored value that is not 64 characters long verify(P, stored)
\* is true exactly when P equals the stored value.
C13_VerifyRoundTrip ==
    /\ \A p, q \in VerifyInputs :
          /\ Len(hash_password(p)) = DigestLen
          /\ (hash_password(p) = hash_password(q) => p = q)
    /\ (resp.op = "verify_password" =>
          LET P == resp.input_password
              stored == resp.stored_password
          IN  /\ (stored = hash_password(P) => resp.result)
              /\ \A Q \in VerifyInputs :
                    (P # Q /\ stored = hash_password(Q)) => ~resp.result
              /\ (Len(stored) # DigestLen => (resp.result <=> P = stored)))

\* A call answered true against a digest, for a password that is not empty.
C13_Witness ==
    /\ resp.op = "verify_password"
    /\ resp.input_password = P_secret
    /\ resp.stored_password = hash_password(P_secret)
    /\ resp.result

(* ---- C14 ---- *)

\* C14: no handler has finished, normally or by an error of a storage
\* statement, with the connection it took from get_db() still open.
C14_ConnectionsReleased == resp.conn # "open"

(* ---- C15 ---- *)

\* C15: a stats response that is what the nine statements give on one
\* repository state (as every call with no write between its statements is)
\* has ready_to_fly <= visa_approved <= total_clients; with writes of other
\* requests between the statements a response breaking this order is
\* reachable (C15_Witness).
C15_StatsSelfConsistency ==
    [][ (/\ stats.pc = LastStatement
         /\ get_stats_query
         /\ resp'.rows[1] = stats_on(LastStatement, clients)) =>
          /\ resp'.rows[1].ready_to_fly <= resp'.rows[1].visa_approved
          /\ resp'.rows[1].visa_approved <= resp'.rows[1].total_clients ]_vars

\* A response counting more approved visas than clients: the repository was
\* empty at the first statement and a record with an approved visa was
\* created before the fourth.
C15_Witness ==
    /\ resp.op = "get_stats"
    /\ resp.status = "ok"
    /\ resp.rows[1].visa_approved > resp.rows[1].total_clients

=============================================================================
